---- MODULE Spec2Model ----
(***************************************************************************)
(* A model of the interactive shell of src/main.cpp: the read-evaluate     *)
(* loop, the command registry and its handlers, the process launcher, the  *)
(* job table `pids`, and the SIGINT handler closeTerminal.                 *)
(*                                                                         *)
(* Every operating-system process that runs the shell's code (the original *)
(* control process, and every duplicate made by fork() until it replaces   *)
(* its image) has its own copy of the program state; the variables are     *)
(* functions of the process identifier.  A step of the model is one        *)
(* statement (or one run of statements that touch only locals) of one      *)
(* process; SIGINT may be delivered between any two steps.                 *)
(***************************************************************************)
EXTENDS Integers, Sequences, FiniteSets, TLC

(***************************************************************************)
(* Bounds of the model.                                                    *)
(***************************************************************************)
\* Process identifiers the OS can hand out: 1 is the shell, fork() fails
\* (EAGAIN) once they are used up.
MaxPid == 3
\* Input lines read in total.
MaxLines == 2

\* Largest value of int (std::stoi's range), INT_MAX.
IntMax == 2147483647

Procs == 1..MaxPid
ShellPid == 1

(***************************************************************************)
(* Text.  A string is a sequence of characters (one-character strings), so *)
(* that the tokenizer and std::stoi are computed, not assumed.             *)
(***************************************************************************)
SP == " "
W_kill == <<"k", "i", "l", "l">>
W_killall == <<"k", "i", "l", "l", "a", "l", "l">>
W_pids == <<"p", "i", "d", "s">>
W_ls == <<"l", "s">>
W_cat == <<"c", "a", "t">>
W_notepad == <<"n", "o", "t", "e", "p", "a", "d">>
W_nice == <<"n", "i", "c", "e">>
W_and == <<"&", "&">>

\* terminalCommands: the registered built-in names.
terminalCommands == {W_ls, W_cat, W_notepad, W_kill, W_killall, W_pids, W_nice}

Digits == {"0", "1", "2", "3", "4", "5", "6", "7", "8", "9"}

DigitVal(c) ==
  CASE c = "0" -> 0 [] c = "1" -> 1 [] c = "2" -> 2 [] c = "3" -> 3
    [] c = "4" -> 4 [] c = "5" -> 5 [] c = "6" -> 6 [] c = "7" -> 7
    [] c = "8" -> 8 [] c = "9" -> 9

\* The accumulation of strtol's digit loop, with the range check of
\* std::stoi.  sgn is 1 or -1, acc the value so far; the result is a record
\* [st |-> "ok", val |-> v] or [st |-> "out_of_range"].
RECURSIVE StoiDigits(_, _, _, _)
StoiDigits(s, i, sgn, acc) ==
  IF i > Len(s) \/ s[i] \notin Digits
  THEN [st |-> "ok", val |-> acc]
  ELSE LET d == DigitVal(s[i])
           lim == IntMax \div 10
           last == IF sgn = 1 THEN IntMax % 10 ELSE (IntMax % 10) + 1
           mag == IF acc < 0 THEN -acc ELSE acc
       IN IF mag > lim \/ (mag = lim /\ d > last)
          THEN [st |-> "out_of_range", val |-> 0]
          ELSE StoiDigits(s, i + 1, sgn, acc * 10 + sgn * d)

\* std::stoi(str): an optional sign, then the longest run of digits; what
\* follows the digits is ignored.  No digit: std::invalid_argument.  A value
\* outside int: std::out_of_range.
stoi(s) ==
  LET signed == Len(s) >= 1 /\ s[1] \in {"-", "+"}
      first == IF signed THEN 2 ELSE 1
      sgn == IF signed /\ s[1] = "-" THEN -1 ELSE 1
  IN IF first > Len(s) \/ s[first] \notin Digits
     THEN [st |-> "invalid_argument", val |-> 0]
     ELSE StoiDigits(s, first, sgn, 0)

\* std::getline(iss, substring, ' ') from position i of the line: the
\* characters up to the next space or the end of the line.
RECURSIVE FieldEnd(_, _)
FieldEnd(line, i) ==
  IF i > Len(line) \/ line[i] = SP THEN i ELSE FieldEnd(line, i + 1)

\* splitStringBySpace: one token per getline that extracts something or
\* meets a delimiter; at the end of the line the next getline fails, so an
\* empty field after the last space yields no token.
RECURSIVE SplitFrom(_, _)
SplitFrom(line, i) ==
  IF i > Len(line)
  THEN <<>>
  ELSE LET j == FieldEnd(line, i)
       IN <<SubSeq(line, i, j - 1)>> \o SplitFrom(line, j + 1)

splitStringBySpace(inputString) == SplitFrom(inputString, 1)

\* The text of a line made of the given fields, one space between two.
RECURSIVE Join(_)
Join(fields) ==
  IF Len(fields) = 0 THEN <<>>
  ELSE IF Len(fields) = 1 THEN fields[1]
  ELSE fields[1] \o <<SP>> \o Join(Tail(fields))

(***************************************************************************)
(* The input lines the user may type.                                      *)
(***************************************************************************)
W_p == <<"p">>
W_q == <<"q">>
W_a == <<"a">>
N2 == <<"2">>
N3 == <<"3">>
N5 == <<"5">>
N9 == <<"9">>
N2x == <<"2", "x">>
Nx == <<"x">>
NBig == <<"2", "1", "4", "7", "4", "8", "3", "6", "4", "8">>

Lines ==
  { <<>>,                               \* the empty line
    <<SP>>,                             \* one space: the single token ""
    Join(<<W_kill, N2>>), Join(<<W_kill, N3>>), Join(<<W_kill, N9>>),
    Join(<<W_kill, N2x>>), Join(<<W_kill, Nx>>), Join(<<W_kill, NBig>>),
    Join(<<W_kill>>), Join(<<W_kill, N2, N3>>),
    Join(<<W_killall>>), Join(<<W_killall, W_a>>),
    Join(<<W_pids>>), Join(<<W_pids, W_a>>),
    Join(<<W_ls>>), Join(<<W_ls, W_a>>),
    Join(<<W_cat, W_a>>), Join(<<W_cat>>),
    Join(<<W_notepad>>), Join(<<W_notepad, W_a>>),
    Join(<<W_nice, N5, W_p>>), Join(<<W_nice, N5>>), Join(<<W_nice, Nx, W_p>>),
    Join(<<W_nice, N5, W_p, W_a>>),
    Join(<<W_p>>), Join(<<W_p, <<>>>>), Join(<<W_p, W_a>>),
    Join(<<W_p, W_and, W_q>>), Join(<<W_p, W_and, W_q, W_and, W_p>>),
    Join(<<W_p, W_and>>) }

(***************************************************************************)
(* State.                                                                  *)
(***************************************************************************)
VARIABLES
  kind,        \* OS view of a pid: "free", "shell" (runs this program),
               \* "prog" (image replaced by exec), "signalled" (ended by a
               \* signal: SIGKILL, SIGABRT of std::terminate, SIGSEGV),
               \* "exited" (ended by exit())
  parent,      \* the pid whose fork() made this process (0: none)
  exitStatus,  \* the wait status of an exited process (-1: none)
  nextPid,     \* the next identifier fork() hands out
  nread,       \* input lines consumed so far
  pc,          \* the statement each process is at
  pids,        \* the job table (std::unordered_set<int> pids)
  tokens,      \* main: tokens
  e,           \* main / createProcesses: e
  idx,         \* createProcesses: position of the loop in tokens
  cpTokens,    \* createProcess: its argument tokens (currentTokens)
  priority,    \* createProcess: its argument priority
  ret,         \* createProcess: who called it ("loop", "final", "nice")
  pid,         \* the local pid of createProcess, openNotepad, killCommand
  todo,        \* killAllCommand: identifiers the for loop has yet to visit
  handler,     \* "closeTerminal" while the SIGINT handler runs, else "none"
  \* history variables, read by the properties only
  T0,          \* the job table when the current line was read
  sent,        \* SIGKILLs sent since the line was read / since the interrupt
  launches,    \* fork() results of the current line, in order (-1: failed)
  accounted,   \* launches - kills - sum of table sizes at killall
  tableAtInt   \* the job table when SIGINT was delivered

osVars == <<kind, parent, exitStatus, nextPid, nread>>
locals == <<tokens, e, idx, cpTokens, priority, ret, pid, todo>>
history == <<T0, sent, launches, accounted, tableAtInt>>
vars == <<osVars, pc, pids, locals, handler, history>>

Init ==
  /\ kind = [p \in Procs |-> IF p = ShellPid THEN "shell" ELSE "free"]
  /\ parent = [p \in Procs |-> 0]
  /\ exitStatus = [p \in Procs |-> -1]
  /\ nextPid = ShellPid + 1
  /\ nread = 0
  /\ pc = [p \in Procs |-> "getline"]
  /\ pids = [p \in Procs |-> {}]
  /\ tokens = [p \in Procs |-> <<>>]
  /\ e = [p \in Procs |-> "OK"]
  /\ idx = [p \in Procs |-> 0]
  /\ cpTokens = [p \in Procs |-> <<>>]
  /\ priority = [p \in Procs |-> 0]
  /\ ret = [p \in Procs |-> "none"]
  /\ pid = [p \in Procs |-> 0]
  /\ todo = [p \in Procs |-> {}]
  /\ handler = [p \in Procs |-> "none"]
  /\ T0 = [p \in Procs |-> {}]
  /\ sent = [p \in Procs |-> {}]
  /\ launches = [p \in Procs |-> <<>>]
  /\ accounted = [p \in Procs |-> 0]
  /\ tableAtInt = [p \in Procs |-> {}]

Running(p) == kind[p] = "shell"
Alive(p) == kind[p] \in {"shell", "prog"}

\* kill(target, SIGKILL) as the OS sees it: a live process dies; any other
\* identifier (never used, already dead) is left as it is.
SigKill(k, target) ==
  IF target \in Procs /\ k[target] \in {"shell", "prog"}
  THEN [k EXCEPT ![target] = "signalled"]
  ELSE k

(***************************************************************************)
(* The end of a process.  Its memory is gone: every per-process variable   *)
(* of a dead process (or of one whose image exec has replaced) is put back *)
(* to a fixed value, and only the OS's record of it (kind, parent,         *)
(* exitStatus) stays.                                                      *)
(***************************************************************************)
\* f with f[q] put to d for every q of gone, and then f[p] put to v.
Put(f, gone, d, p, v) ==
  [q \in Procs |-> IF q = p THEN v ELSE IF q \in gone THEN d ELSE f[q]]

\* The process p stops running this program and becomes `how`.
Leaves(p, how) ==
  /\ kind' = [kind EXCEPT ![p] = how]
  /\ pc' = [pc EXCEPT ![p] = "getline"]
  /\ pids' = [pids EXCEPT ![p] = {}]
  /\ tokens' = [tokens EXCEPT ![p] = <<>>]
  /\ e' = [e EXCEPT ![p] = "OK"]
  /\ idx' = [idx EXCEPT ![p] = 0]
  /\ cpTokens' = [cpTokens EXCEPT ![p] = <<>>]
  /\ priority' = [priority EXCEPT ![p] = 0]
  /\ ret' = [ret EXCEPT ![p] = "none"]
  /\ pid' = [pid EXCEPT ![p] = 0]
  /\ todo' = [todo EXCEPT ![p] = {}]
  /\ handler' = [handler EXCEPT ![p] = "none"]
  /\ T0' = [T0 EXCEPT ![p] = {}]
  /\ sent' = [sent EXCEPT ![p] = {}]
  /\ launches' = [launches EXCEPT ![p] = <<>>]
  /\ accounted' = [accounted EXCEPT ![p] = 0]
  /\ tableAtInt' = [tableAtInt EXCEPT ![p] = {}]
  /\ UNCHANGED <<parent, nextPid, nread>>

\* The process p does kill(target, SIGKILL) and goes on at pcNew with
\* todoNew left to visit.
Kills(p, target, pcNew, todoNew) ==
  LET gone == IF target \in Procs /\ kind[target] = "shell" THEN {target} ELSE {}
  IN /\ kind' = SigKill(kind, target)
     /\ pc' = Put(pc, gone, "getline", p, pcNew)
     /\ todo' = Put(todo, gone, {}, p, todoNew)
     /\ sent' = Put(sent, gone, {}, p, sent[p] \cup {target})
     /\ pids' = Put(pids, gone, {}, p, pids[p])
     /\ tokens' = Put(tokens, gone, <<>>, p, tokens[p])
     /\ e' = Put(e, gone, "OK", p, e[p])
     /\ idx' = Put(idx, gone, 0, p, idx[p])
     /\ cpTokens' = Put(cpTokens, gone, <<>>, p, cpTokens[p])
     /\ priority' = Put(priority, gone, 0, p, priority[p])
     /\ ret' = Put(ret, gone, "none", p, ret[p])
     /\ pid' = Put(pid, gone, 0, p, pid[p])
     /\ handler' = Put(handler, gone, "none", p, handler[p])
     /\ T0' = Put(T0, gone, {}, p, T0[p])
     /\ launches' = Put(launches, gone, <<>>, p, launches[p])
     /\ accounted' = Put(accounted, gone, 0, p, accounted[p])
     /\ tableAtInt' = Put(tableAtInt, gone, {}, p, tableAtInt[p])
     /\ UNCHANGED <<parent, exitStatus, nextPid, nread>>


(***************************************************************************)
(* What the call of a handler does before its first statement that acts on *)
(* the job table or on the OS: it returns an outcome, throws, or goes on   *)
(* to that statement.                                                      *)
(***************************************************************************)
Returns(err) ==
  [k |-> "return", e |-> err, pc |-> "main71", pid |-> 0,
   cpTokens |-> <<>>, priority |-> 0]
Throws(x) ==
  [k |-> "throw", e |-> x, pc |-> "main71", pid |-> 0,
   cpTokens |-> <<>>, priority |-> 0]
Goes(label, v, t, prio) ==
  [k |-> "step", e |-> "OK", pc |-> label, pid |-> v,
   cpTokens |-> t, priority |-> prio]

\* killCommand without the membership test of line 109.
killCommand_NoMembershipTest(arguments, T) ==
  IF Len(arguments) # 1
  THEN {Returns("INVALID_ARGUMENT_NUMBER")}
  ELSE LET r == stoi(arguments[1])
       IN IF r.st # "ok" THEN {Throws(r.st)}
          ELSE {Goes("kill_send", r.val, <<>>, 0)}

\* killCommand up to the membership test.
killCommand(arguments, T) ==
  IF Len(arguments) # 1
  THEN {Returns("INVALID_ARGUMENT_NUMBER")}
  ELSE LET r == stoi(arguments[1])
       IN IF r.st # "ok" THEN {Throws(r.st)}
          ELSE IF r.val \notin T THEN {Returns("INVALID_PID")}
          ELSE {Goes("kill_send", r.val, <<>>, 0)}

\* killAllCommand up to the for loop.
killAllCommand(arguments) ==
  IF Len(arguments) # 0
  THEN {Returns("INVALID_ARGUMENT_NUMBER")}
  ELSE {Goes("killall_loop", 0, <<>>, 0)}

\* niceCommand up to its call of createProcess({command}, prio).
niceCommand(arguments) ==
  IF Len(arguments) # 2
  THEN {Returns("INVALID_ARGUMENT_NUMBER")}
  ELSE LET r == stoi(arguments[1])
       IN IF r.st # "ok" THEN {Throws(r.st)}
          ELSE {Goes("fork", 0, <<arguments[2]>>, r.val)}

\* showPids: prints the table.
showPids(arguments) ==
  IF Len(arguments) # 0
  THEN {Returns("INVALID_ARGUMENT_NUMBER")}
  ELSE {Returns("OK")}

\* listDirContent: prints the entries of the current directory.
listDirContent(arguments) ==
  IF Len(arguments) # 0
  THEN {Returns("INVALID_ARGUMENT_NUMBER")}
  ELSE {Returns("OK")}

\* printFileContents: the path names a readable regular file, or not.
printFileContents(arguments) ==
  IF Len(arguments) # 1
  THEN {Returns("INVALID_ARGUMENT_NUMBER")}
  ELSE {Returns("INVALID_FILE_PATH"), Returns("OK")}

\* openNotepad: no test of the arguments; its first statement is fork().
openNotepad(arguments) == {Goes("np_fork", 0, <<>>, 0)}

\* terminalCommands.at(command)(arguments)
CallHandler(command, arguments, T) ==
  CASE command = W_ls -> listDirContent(arguments)
    [] command = W_cat -> printFileContents(arguments)
    [] command = W_notepad -> openNotepad(arguments)
    [] command = W_kill -> killCommand(arguments, T)
    [] command = W_killall -> killAllCommand(arguments)
    [] command = W_pids -> showPids(arguments)
    [] command = W_nice -> niceCommand(arguments)

\* executeCommand: the lookup, the call, and the catch of std::out_of_range
\* around both.  Any other exception leaves executeCommand uncaught.
executeCommand(toks, T) ==
  LET command == toks[1]
      arguments == Tail(toks)
      called == IF command \in terminalCommands
                THEN CallHandler(command, arguments, T)
                ELSE {Throws("out_of_range")}
  IN { IF o.k = "throw" /\ o.e = "out_of_range"
       THEN Returns("UNKNOWN_COMMAND") ELSE o : o \in called }

(***************************************************************************)
(* The control loop.                                                       *)
(***************************************************************************)
CanStep(p) == kind[p] = "shell"
InMain(p) == CanStep(p) /\ handler[p] = "none"

\* main, lines 64-69: read a line; an empty one is skipped.  The user types
\* one line at a time: the next line is entered once no process is still
\* working on the tokens of the last one.
ReadLine(p, inputBuffer) ==
  /\ InMain(p) /\ pc[p] = "getline"
  /\ \A q \in Procs : ~(InMain(q) /\ tokens[q] # <<>>)
  /\ nread < MaxLines
  /\ nread' = nread + 1
  /\ IF inputBuffer = <<>>
     THEN UNCHANGED <<pc, tokens, T0>>
     ELSE /\ tokens' = [tokens EXCEPT ![p] = splitStringBySpace(inputBuffer)]
          /\ pc' = [pc EXCEPT ![p] = "executeCommand"]
          /\ T0' = [T0 EXCEPT ![p] = pids[p]]
  /\ UNCHANGED <<kind, parent, exitStatus, nextPid, pids, e, idx, cpTokens,
                 priority, ret, pid, todo, handler, sent, launches,
                 accounted, tableAtInt>>

\* main, line 70: e = executeCommand(tokens), up to the handler's first
\* statement with an effect; an uncaught exception ends the process
\* (std::terminate raises SIGABRT).
Dispatch(p) ==
  /\ InMain(p) /\ pc[p] = "executeCommand"
  /\ \E o \in executeCommand(tokens[p], pids[p]) :
       IF o.k = "throw"
       THEN Leaves(p, "signalled") /\ UNCHANGED exitStatus
       ELSE /\ pc' = [pc EXCEPT ![p] = o.pc]
            /\ e' = [e EXCEPT ![p] = o.e]
            /\ pid' = [pid EXCEPT ![p] = o.pid]
            /\ cpTokens' = [cpTokens EXCEPT ![p] = o.cpTokens]
            /\ priority' = [priority EXCEPT ![p] = o.priority]
            /\ ret' = [ret EXCEPT ![p] = IF o.pc = "fork" THEN "nice" ELSE @]
            /\ todo' = [todo EXCEPT ![p] = IF o.pc = "killall_loop" THEN pids[p] ELSE @]
            /\ accounted' = [accounted EXCEPT ![p] =
                 IF o.pc = "killall_loop" THEN @ - Cardinality(pids[p]) ELSE @]
            /\ UNCHANGED <<osVars, pids, tokens, idx, handler, T0, sent,
                           launches, tableAtInt>>

\* The end of the loop body (lines 73-75): the locals of the iteration go
\* out of scope.
EndLine(p) ==
  /\ pc' = [pc EXCEPT ![p] = "getline"]
  /\ tokens' = [tokens EXCEPT ![p] = <<>>]
  /\ e' = [e EXCEPT ![p] = "OK"]
  /\ idx' = [idx EXCEPT ![p] = 0]
  /\ cpTokens' = [cpTokens EXCEPT ![p] = <<>>]
  /\ priority' = [priority EXCEPT ![p] = 0]
  /\ ret' = [ret EXCEPT ![p] = "none"]
  /\ pid' = [pid EXCEPT ![p] = 0]
  /\ todo' = [todo EXCEPT ![p] = {}]
  /\ T0' = [T0 EXCEPT ![p] = {}]
  /\ sent' = [sent EXCEPT ![p] = {}]
  /\ launches' = [launches EXCEPT ![p] = <<>>]
  /\ UNCHANGED <<osVars, pids, handler, accounted, tableAtInt>>

\* main, lines 71-74 after executeCommand has returned.
Main71(p) ==
  /\ InMain(p) /\ pc[p] = "main71"
  /\ IF e[p] = "UNKNOWN_COMMAND"
     THEN /\ pc' = [pc EXCEPT ![p] = "createProcesses"]
          /\ idx' = [idx EXCEPT ![p] = 1]
          /\ e' = [e EXCEPT ![p] = "OK"]
          /\ UNCHANGED <<osVars, pids, tokens, cpTokens, priority, ret, pid,
                         todo, handler, history>>
     ELSE EndLine(p)

\* main, lines 73-74 after createProcesses has returned.
Main73(p) ==
  /\ InMain(p) /\ pc[p] = "main73"
  /\ EndLine(p)

(***************************************************************************)
(* The process launcher.                                                   *)
(***************************************************************************)
\* The position of the first "&&" of toks at or after i (Len(toks) + 1 when
\* there is none): where the for loop of createProcesses next calls
\* createProcess.
RECURSIVE NextAnd(_, _)
NextAnd(toks, i) ==
  IF i > Len(toks) \/ toks[i] = W_and THEN i ELSE NextAnd(toks, i + 1)

\* createProcesses, lines 217-231: collect currentTokens up to the next
\* "&&" (or to the end of tokens) and call createProcess on them.
createProcesses(p) ==
  /\ InMain(p) /\ pc[p] = "createProcesses"
  /\ LET j == NextAnd(tokens[p], idx[p])
     IN /\ cpTokens' = [cpTokens EXCEPT ![p] = SubSeq(tokens[p], idx[p], j - 1)]
        /\ idx' = [idx EXCEPT ![p] = j]
        /\ ret' = [ret EXCEPT ![p] = IF j <= Len(tokens[p]) THEN "loop" ELSE "final"]
  /\ priority' = [priority EXCEPT ![p] = 0]
  /\ pc' = [pc EXCEPT ![p] = "fork"]
  /\ UNCHANGED <<osVars, pids, tokens, e, pid, todo, handler, history>>

\* Where createProcess returns to, and with what: the loop of
\* createProcesses (lines 223-229), its last statement (231-232), or
\* niceCommand (136-137), which drops the outcome.
\* createProcesses returning after its first call of createProcess.
SitePc_StopsAfterFirstGroup(r, err) ==
  CASE r = "loop" -> "main73"
    [] r = "final" -> "main73"
    [] r = "nice" -> "main71"

SitePc(r, err) ==
  CASE r = "loop" -> IF err # "OK" THEN "main73" ELSE "createProcesses"
    [] r = "final" -> "main73"
    [] r = "nice" -> "main71"
SiteE(r, err) == IF r = "nice" THEN "OK" ELSE err
SiteIdx(r, i) == IF r = "loop" THEN i + 1 ELSE i

ReturnFromCreate(p, err) ==
  /\ pc' = [pc EXCEPT ![p] = SitePc(ret[p], err)]
  /\ e' = [e EXCEPT ![p] = SiteE(ret[p], err)]
  /\ idx' = [idx EXCEPT ![p] = SiteIdx(ret[p], @)]

\* fork() has failed in the process p.
ForkFails(p) ==
  /\ launches' = [launches EXCEPT ![p] = Append(@, -1)]
  /\ UNCHANGED <<osVars, pids, tokens, cpTokens, priority, ret, pid, todo,
                 handler, T0, sent, accounted, tableAtInt>>

\* fork() has succeeded in the process p: the duplicate c starts as a copy
\* of p, at the statement childPc with pid = 0; p goes on at parentPc with
\* pid = c.  Of the copied locals the duplicate only ever uses the argument
\* of createProcess and the place it returns to (what it returns is never
\* OK, so the loop of createProcesses does not go on in it); the others are
\* not kept.
ForkSucceeds(p, parentPc, childPc) ==
  /\ nextPid <= MaxPid
  /\ LET c == nextPid
     IN /\ nextPid' = nextPid + 1
        /\ kind' = [kind EXCEPT ![c] = "shell"]
        /\ parent' = [parent EXCEPT ![c] = p]
        /\ pc' = [pc EXCEPT ![p] = parentPc, ![c] = childPc]
        /\ pid' = [pid EXCEPT ![p] = c, ![c] = 0]
        /\ launches' = [launches EXCEPT ![p] = Append(@, c)]
        /\ pids' = [pids EXCEPT ![c] = pids[p]]
        /\ cpTokens' = [cpTokens EXCEPT ![c] = cpTokens[p]]
        /\ priority' = [priority EXCEPT ![c] = priority[p]]
        /\ ret' = [ret EXCEPT ![c] = ret[p]]
        /\ accounted' = [accounted EXCEPT ![c] = accounted[p]]
  /\ UNCHANGED <<exitStatus, nread, tokens, e, idx, todo, handler, T0, sent,
                 tableAtInt>>

\* createProcess, lines 239-243, fork() failing: FORK_ERROR.
ForkError(p) ==
  /\ InMain(p) /\ pc[p] = "fork"
  /\ ForkFails(p)
  /\ ReturnFromCreate(p, "FORK_ERROR")

\* createProcess, lines 239-241, fork() succeeding.
Fork(p) ==
  /\ InMain(p) /\ pc[p] = "fork"
  /\ ForkSucceeds(p, "insert", "execvp")

\* What setpriority(PRIO_PROCESS, pid, priority) may return: 0, or -1 (the
\* process is already gone, or the priority may not be given).
SetPriorityResults == {0, -1}

\* createProcess reporting a failure of setpriority to its caller.
Insert_PriorityFailureReported(p) ==
  /\ InMain(p) /\ pc[p] = "insert"
  /\ pids' = [pids EXCEPT ![p] = @ \cup {pid[p]}]
  /\ accounted' = [accounted EXCEPT ![p] = @ + 1]
  /\ \E rc \in SetPriorityResults :
       ReturnFromCreate(p, IF rc = 0 THEN "OK" ELSE "INVALID_PROCESS_INPUT")
  /\ UNCHANGED <<osVars, tokens, cpTokens, priority, ret, pid, todo, handler,
                 T0, sent, launches, tableAtInt>>

\* createProcess inserting its argument priority instead of the result of
\* fork().
Insert_InsertsPriority(p) ==
  /\ InMain(p) /\ pc[p] = "insert"
  /\ pids' = [pids EXCEPT ![p] = @ \cup {priority[p]}]
  /\ accounted' = [accounted EXCEPT ![p] = @ + 1]
  /\ ReturnFromCreate(p, "OK")
  /\ UNCHANGED <<osVars, tokens, cpTokens, priority, ret, pid, todo, handler,
                 T0, sent, launches, tableAtInt>>

\* createProcess returning OK without pids.insert(pid).
Insert_NoInsert(p) ==
  /\ InMain(p) /\ pc[p] = "insert"
  /\ accounted' = [accounted EXCEPT ![p] = @ + 1]
  /\ ReturnFromCreate(p, "OK")
  /\ UNCHANGED <<osVars, pids, tokens, cpTokens, priority, ret, pid, todo,
                 handler, T0, sent, launches, tableAtInt>>

\* createProcess, lines 251-253, in the original: record the identifier,
\* set the priority (its result is dropped), return OK.
Insert(p) ==
  /\ InMain(p) /\ pc[p] = "insert"
  /\ pids' = [pids EXCEPT ![p] = @ \cup {pid[p]}]
  /\ accounted' = [accounted EXCEPT ![p] = @ + 1]
  /\ \E rc \in SetPriorityResults : ReturnFromCreate(p, "OK")
  /\ UNCHANGED <<osVars, tokens, cpTokens, priority, ret, pid, todo, handler,
                 T0, sent, launches, tableAtInt>>

\* createProcess, line 246, in the duplicate: execvp replaces the image.
\* argv[0] is the first token; with no token it is the null pointer and
\* with an empty first token no program is found.
ExecSucceeds(p) ==
  /\ InMain(p) /\ pc[p] = "execvp"
  /\ cpTokens[p] # <<>> /\ cpTokens[p][1] # <<>>
  /\ Leaves(p, "prog")
  /\ UNCHANGED exitStatus

\* createProcess, lines 246-247, in the duplicate: execvp returns, and the
\* duplicate returns INVALID_PROCESS_INPUT to the caller of createProcess.
ExecFails(p) ==
  /\ InMain(p) /\ pc[p] = "execvp"
  /\ ReturnFromCreate(p, "INVALID_PROCESS_INPUT")
  /\ UNCHANGED <<osVars, pids, tokens, cpTokens, priority, ret, pid, todo,
                 handler, T0, sent, launches, accounted, tableAtInt>>

\* createProcess, line 246, in the duplicate, when tokens is empty:
\* execvp(nullptr, argv) may also fault instead of returning.
ExecCrashes(p) ==
  /\ InMain(p) /\ pc[p] = "execvp"
  /\ cpTokens[p] = <<>>
  /\ Leaves(p, "signalled")
  /\ UNCHANGED exitStatus

\* openNotepad, lines 198-201, fork() failing.
NotepadForkError(p) ==
  /\ InMain(p) /\ pc[p] = "np_fork"
  /\ ForkFails(p)
  /\ pc' = [pc EXCEPT ![p] = "main71"]
  /\ e' = [e EXCEPT ![p] = "UNABLE_TO_OPEN_NOTEPAD"]
  /\ UNCHANGED idx

\* openNotepad, line 198, fork() succeeding.
NotepadFork(p) ==
  /\ InMain(p) /\ pc[p] = "np_fork"
  /\ ForkSucceeds(p, "np_insert", "np_exec")

\* openNotepad, lines 209-212, in the original.
NotepadInsert(p) ==
  /\ InMain(p) /\ pc[p] = "np_insert"
  /\ pids' = [pids EXCEPT ![p] = @ \cup {pid[p]}]
  /\ accounted' = [accounted EXCEPT ![p] = @ + 1]
  /\ pc' = [pc EXCEPT ![p] = "main71"]
  /\ e' = [e EXCEPT ![p] = "OK"]
  /\ UNCHANGED <<osVars, tokens, idx, cpTokens, priority, ret, pid, todo,
                 handler, T0, sent, launches, tableAtInt>>

\* openNotepad, line 204, in the duplicate: execlp replaces the image.
NotepadExecSucceeds(p) ==
  /\ InMain(p) /\ pc[p] = "np_exec"
  /\ Leaves(p, "prog")
  /\ UNCHANGED exitStatus

\* openNotepad, lines 204-205, in the duplicate: execlp returns, and the
\* duplicate returns UNABLE_TO_OPEN_NOTEPAD to executeCommand.
NotepadExecFails(p) ==
  /\ InMain(p) /\ pc[p] = "np_exec"
  /\ pc' = [pc EXCEPT ![p] = "main71"]
  /\ e' = [e EXCEPT ![p] = "UNABLE_TO_OPEN_NOTEPAD"]
  /\ UNCHANGED <<osVars, pids, tokens, idx, cpTokens, priority, ret, pid,
                 todo, handler, T0, sent, launches, accounted, tableAtInt>>

(***************************************************************************)
(* kill, killall and the termination sequence.                             *)
(***************************************************************************)
\* killCommand going on to pids.erase without kill(pid, SIGKILL).
KillSend_NoSignal(p) ==
  /\ InMain(p) /\ pc[p] = "kill_send"
  /\ pc' = [pc EXCEPT ![p] = "kill_erase"]
  /\ UNCHANGED <<osVars, pids, locals, handler, history>>

\* killCommand, lines 111-113: kill(pid, SIGKILL).
KillSend(p) ==
  /\ InMain(p) /\ pc[p] = "kill_send"
  /\ Kills(p, pid[p], "kill_erase", todo[p])

\* killCommand returning OK without pids.erase(pid).
KillErase_NoErase(p) ==
  /\ InMain(p) /\ pc[p] = "kill_erase"
  /\ accounted' = [accounted EXCEPT ![p] = @ - 1]
  /\ pc' = [pc EXCEPT ![p] = "main71"]
  /\ e' = [e EXCEPT ![p] = "OK"]
  /\ UNCHANGED <<osVars, pids, tokens, idx, cpTokens, priority, ret, pid, todo,
                 handler, T0, sent, launches, tableAtInt>>

\* killCommand, lines 114-115: pids.erase(pid); return OK.
KillErase(p) ==
  /\ InMain(p) /\ pc[p] = "kill_erase"
  /\ pids' = [pids EXCEPT ![p] = @ \ {pid[p]}]
  /\ accounted' = [accounted EXCEPT ![p] = @ - 1]
  /\ pc' = [pc EXCEPT ![p] = "main71"]
  /\ e' = [e EXCEPT ![p] = "OK"]
  /\ UNCHANGED <<osVars, tokens, idx, cpTokens, priority, ret, pid, todo,
                 handler, T0, sent, launches, tableAtInt>>

\* killAllCommand, lines 124-125: one iteration of the for loop (the order
\* of an unordered_set is unspecified).
KillAllLoop(p) ==
  /\ CanStep(p) /\ pc[p] = "killall_loop"
  /\ \E target \in todo[p] :
       Kills(p, target, "killall_loop", todo[p] \ {target})

\* killAllCommand returning OK without pids.clear().
KillAllClear_NoClear(p) ==
  /\ CanStep(p) /\ pc[p] = "killall_loop"
  /\ todo[p] = {}
  /\ IF handler[p] = "none"
     THEN /\ pc' = [pc EXCEPT ![p] = "main71"]
          /\ e' = [e EXCEPT ![p] = "OK"]
     ELSE /\ pc' = [pc EXCEPT ![p] = "exit"]
          /\ UNCHANGED e
  /\ UNCHANGED <<osVars, pids, tokens, idx, cpTokens, priority, ret, pid, todo,
                 handler, history>>

\* killAllCommand, lines 126-127: pids.clear(); return OK, to
\* executeCommand or to closeTerminal.
KillAllClear(p) ==
  /\ CanStep(p) /\ pc[p] = "killall_loop"
  /\ todo[p] = {}
  /\ pids' = [pids EXCEPT ![p] = {}]
  /\ IF handler[p] = "none"
     THEN /\ pc' = [pc EXCEPT ![p] = "main71"]
          /\ e' = [e EXCEPT ![p] = "OK"]
     ELSE /\ pc' = [pc EXCEPT ![p] = "exit"]
          /\ UNCHANGED e
  /\ UNCHANGED <<osVars, tokens, idx, cpTokens, priority, ret, pid, todo,
                 handler, history>>

\* closeTerminal signalling every process the shell has created, tracked
\* or not.
Interrupt_KillsEveryChild(p) ==
  /\ InMain(p)
  /\ handler' = [handler EXCEPT ![p] = "closeTerminal"]
  /\ pc' = [pc EXCEPT ![p] = "killall_loop"]
  /\ todo' = [todo EXCEPT ![p] = {c \in Procs : parent[c] = p}]
  /\ tableAtInt' = [tableAtInt EXCEPT ![p] = pids[p]]
  /\ sent' = [sent EXCEPT ![p] = {}]
  /\ accounted' = [accounted EXCEPT ![p] = @ - Cardinality(pids[p])]
  /\ tokens' = [tokens EXCEPT ![p] = <<>>]
  /\ e' = [e EXCEPT ![p] = "OK"]
  /\ idx' = [idx EXCEPT ![p] = 0]
  /\ cpTokens' = [cpTokens EXCEPT ![p] = <<>>]
  /\ priority' = [priority EXCEPT ![p] = 0]
  /\ ret' = [ret EXCEPT ![p] = "none"]
  /\ pid' = [pid EXCEPT ![p] = 0]
  /\ T0' = [T0 EXCEPT ![p] = {}]
  /\ launches' = [launches EXCEPT ![p] = <<>>]
  /\ UNCHANGED <<osVars, pids>>

\* closeTerminal going to its exit without the call of killAllCommand.
Interrupt_NoKillAll(p) ==
  /\ InMain(p)
  /\ handler' = [handler EXCEPT ![p] = "closeTerminal"]
  /\ pc' = [pc EXCEPT ![p] = "exit"]
  /\ tableAtInt' = [tableAtInt EXCEPT ![p] = pids[p]]
  /\ sent' = [sent EXCEPT ![p] = {}]
  /\ tokens' = [tokens EXCEPT ![p] = <<>>]
  /\ e' = [e EXCEPT ![p] = "OK"]
  /\ idx' = [idx EXCEPT ![p] = 0]
  /\ cpTokens' = [cpTokens EXCEPT ![p] = <<>>]
  /\ priority' = [priority EXCEPT ![p] = 0]
  /\ ret' = [ret EXCEPT ![p] = "none"]
  /\ pid' = [pid EXCEPT ![p] = 0]
  /\ T0' = [T0 EXCEPT ![p] = {}]
  /\ launches' = [launches EXCEPT ![p] = <<>>]
  /\ UNCHANGED <<osVars, pids, todo, accounted>>

\* SIGINT is delivered: closeTerminal starts on top of whatever statement
\* the process is at and calls killAllCommand({}) (lines 307-309).  The
\* signal stays blocked while its handler runs, and the handler ends in
\* exit(): the interrupted frames of main are never resumed, so their
\* locals are dropped here.
Interrupt(p) ==
  /\ InMain(p)
  /\ handler' = [handler EXCEPT ![p] = "closeTerminal"]
  /\ pc' = [pc EXCEPT ![p] = "killall_loop"]
  /\ todo' = [todo EXCEPT ![p] = pids[p]]
  /\ tableAtInt' = [tableAtInt EXCEPT ![p] = pids[p]]
  /\ sent' = [sent EXCEPT ![p] = {}]
  /\ accounted' = [accounted EXCEPT ![p] = @ - Cardinality(pids[p])]
  /\ tokens' = [tokens EXCEPT ![p] = <<>>]
  /\ e' = [e EXCEPT ![p] = "OK"]
  /\ idx' = [idx EXCEPT ![p] = 0]
  /\ cpTokens' = [cpTokens EXCEPT ![p] = <<>>]
  /\ priority' = [priority EXCEPT ![p] = 0]
  /\ ret' = [ret EXCEPT ![p] = "none"]
  /\ pid' = [pid EXCEPT ![p] = 0]
  /\ T0' = [T0 EXCEPT ![p] = {}]
  /\ launches' = [launches EXCEPT ![p] = <<>>]
  /\ UNCHANGED <<osVars, pids>>

\* closeTerminal, lines 310-337: the farewell banner and its sleeps, then
\* exit(666); the status the OS keeps is the low eight bits.
ExitCode == 666

\* exit() with a status the OS would keep whole.
Exit_NoTruncation(p) ==
  /\ CanStep(p) /\ pc[p] = "exit"
  /\ Leaves(p, "exited")
  /\ exitStatus' = [exitStatus EXCEPT ![p] = ExitCode]

Exit(p) ==
  /\ CanStep(p) /\ pc[p] = "exit"
  /\ Leaves(p, "exited")
  /\ exitStatus' = [exitStatus EXCEPT ![p] = ExitCode % 256]

(***************************************************************************)
(* The specification.                                                      *)
(***************************************************************************)
Next ==
  \E p \in Procs :
    \/ \E inputBuffer \in Lines : ReadLine(p, inputBuffer)
    \/ Dispatch(p)
    \/ Main71(p)
    \/ Main73(p)
    \/ createProcesses(p)
    \/ ForkError(p)
    \/ Fork(p)
    \/ Insert(p)
    \/ ExecSucceeds(p)
    \/ ExecFails(p)
    \/ ExecCrashes(p)
    \/ NotepadForkError(p)
    \/ NotepadFork(p)
    \/ NotepadInsert(p)
    \/ NotepadExecSucceeds(p)
    \/ NotepadExecFails(p)
    \/ KillSend(p)
    \/ KillErase(p)
    \/ KillAllLoop(p)
    \/ KillAllClear(p)
    \/ Interrupt(p)
    \/ Exit(p)

Spec == Init /\ [][Next]_vars

\* The steps of closeTerminal.
HandlerStep(p) ==
  handler[p] # "none" /\ (KillAllLoop(p) \/ KillAllClear(p) \/ Exit(p))

\* A process that is not stopped keeps executing its handler.
FairSpec == Spec /\ \A p \in Procs : WF_vars(HandlerStep(p))

(***************************************************************************)
(* Properties.                                                             *)
(***************************************************************************)
\* The process p is working on a line it has read.
Processing(p) == InMain(p) /\ tokens[p] # <<>>
Command(p) == tokens[p][1]
Arguments(p) == Tail(tokens[p])
\* The handler called by executeCommand has returned to main.
Returned(p) == pc[p] = "main71"
\* p is a duplicate whose execvp/execlp has returned.
ExecHasFailed(c) ==
  /\ c \in Procs /\ parent[c] # 0
  /\ kind[c] = "shell" /\ handler[c] = "none"
  /\ pc[c] \notin {"execvp", "np_exec"}
InHandler(p) == kind[p] = "shell" /\ handler[p] # "none"

\* C1: `kill <pid>` with an integer pid that is not in the job table T
\* returns INVALID_PID, sends no signal and leaves the job table equal to T.
C1_KillUnknownPid ==
  \A p \in Procs :
    ( /\ Processing(p)
      /\ Command(p) = W_kill /\ Len(Arguments(p)) = 1
      /\ stoi(Arguments(p)[1]).st = "ok"
      /\ stoi(Arguments(p)[1]).val \notin T0[p] )
    => /\ pc[p] \in {"executeCommand", "main71"}
       /\ sent[p] = {}
       /\ pids[p] = T0[p]
       /\ Returned(p) => e[p] = "INVALID_PID"

\* C1 happens: kill of an untracked pid has returned while a job is tracked.
C1_Witness ==
  \E p \in Procs :
    /\ Processing(p) /\ Returned(p)
    /\ Command(p) = W_kill /\ Len(Arguments(p)) = 1
    /\ stoi(Arguments(p)[1]).st = "ok"
    /\ stoi(Arguments(p)[1]).val \notin T0[p]
    /\ T0[p] # {}

\* C2: `killall` without arguments returns OK, has sent SIGKILL to every
\* identifier of the job table T (and to no other), and leaves the table
\* empty, whatever T is.
C2_KillAll ==
  \A p \in Procs :
    (Processing(p) /\ tokens[p] = <<W_killall>> /\ Returned(p))
    => /\ e[p] = "OK"
       /\ sent[p] = T0[p]
       /\ pids[p] = {}

\* C2 happens: killall has returned from a table that held a job.
C2_Witness ==
  \E p \in Procs :
    /\ Processing(p) /\ tokens[p] = <<W_killall>> /\ Returned(p)
    /\ T0[p] # {}

\* The number of arguments is not the one the contract of the built-in
\* states.
WrongArity(toks) ==
  LET n == Len(toks) - 1
  IN \/ toks[1] \in {W_notepad, W_ls, W_pids, W_killall} /\ n # 0
     \/ toks[1] \in {W_cat, W_kill} /\ n # 1
     \/ toks[1] = W_nice /\ n < 2

\* C3: a built-in invoked with a wrong number of arguments returns
\* INVALID_ARGUMENT_NUMBER, creates no process and leaves the job table
\* unchanged.
C3_WrongArityClaim ==
  \A p \in Procs :
    (Processing(p) /\ WrongArity(tokens[p]))
    => /\ \A i \in 1..Len(launches[p]) : launches[p][i] = -1
       /\ pids[p] = T0[p]
       /\ Returned(p) => e[p] = "INVALID_ARGUMENT_NUMBER"

\* The i-th launch of the current line of p has failed: fork() failed, or
\* the program image could not be executed in the duplicate.
LaunchFailed(p, i) ==
  launches[p][i] = -1 \/ ExecHasFailed(launches[p][i])

\* The line is `cmdA && cmdB`: a conjunction token with a token before it
\* and a token after it, and a first token that is no built-in.
ConjunctionLine(toks) ==
  /\ toks[1] \notin terminalCommands \cup {W_and}
  /\ \E j \in 2..(Len(toks) - 1) : toks[j] = W_and

\* C4: on a line `cmdA && cmdB` that falls through to process creation,
\* once the launch of a group has failed (fork() failed, or the image could
\* not be executed) no later group is launched and the outcome of the line
\* is that failure.
C4_StopAtFailedLaunchClaim ==
  \A p \in Procs :
    (Processing(p) /\ ConjunctionLine(tokens[p]))
    => \A i \in 1..Len(launches[p]) :
         LaunchFailed(p, i)
         => /\ i = Len(launches[p])
            /\ pc[p] # "fork"
            /\ pc[p] = "main73" => e[p] # "OK"

\* C5: a duplicate whose program image could not be replaced does not go on
\* running the shell: the only statements a duplicate is ever at are the
\* exec calls.
C5_DuplicateNeverInLoopClaim ==
  \A c \in Procs :
    (kind[c] = "shell" /\ parent[c] # 0 /\ handler[c] = "none")
    => pc[c] \in {"execvp", "np_exec"}

\* C6: a line whose first token is a registered built-in never yields
\* UNKNOWN_COMMAND from executeCommand and never reaches createProcesses.
C6_BuiltinNeverFallsThroughClaim ==
  \A p \in Procs :
    (Processing(p) /\ Command(p) \in terminalCommands)
    => /\ e[p] # "UNKNOWN_COMMAND"
       /\ pc[p] \notin {"createProcesses", "main73"}
       /\ pc[p] \in {"fork", "insert"} => ret[p] = "nice"

\* C7: once SIGINT is delivered the process only runs closeTerminal (it reads
\* no further line); when it is about to exit every identifier that was in
\* the job table at the interrupt has been sent SIGKILL and the table is
\* empty; and the process does come to its end (the control process, which
\* no job table names, by exit).
C7_TerminationSequence ==
  /\ [](\A p \in Procs :
          (InHandler(p) /\ pc[p] = "exit")
          => (pids[p] = {} /\ tableAtInt[p] \subseteq sent[p]))
  /\ [][\A p \in Procs :
          InHandler(p)
          => /\ tokens'[p] = <<>>
             /\ (InHandler(p))' \/ kind'[p] \in {"exited", "signalled"}
             /\ kind'[p] = "shell" => pc'[p] \in {"killall_loop", "exit"}]_vars
  /\ \A p \in Procs : InHandler(p) ~> (kind[p] \in {"exited", "signalled"})
  /\ InHandler(ShellPid) ~> (kind[ShellPid] = "exited")

\* C7 happens: the control process is about to exit from closeTerminal and
\* two jobs were tracked when SIGINT came.
C7_Witness ==
  /\ InHandler(ShellPid) /\ pc[ShellPid] = "exit"
  /\ Cardinality(tableAtInt[ShellPid]) = 2

\* C8: no process the shell has created survives the termination sequence
\* unsignalled: when closeTerminal is about to exit, no process forked by
\* this process is still alive.
C8_NoChildSurvivesClaim ==
  \A p \in Procs :
    (InHandler(p) /\ pc[p] = "exit")
    => \A c \in Procs : parent[c] = p => ~Alive(c)

\* C9: no input line ends the control process: it only ever stops by the
\* exit of the termination sequence.
C9_LoopNeverEndsClaim ==
  kind[ShellPid] \in {"shell", "exited"}

\* C10: between two lines the size of the job table is the number of
\* successful launches, minus the number of successful kills, minus the sum
\* of the table sizes at each killall.
C10_TableSize ==
  \A p \in Procs :
    (InMain(p) /\ pc[p] = "getline")
    => Cardinality(pids[p]) = accounted[p]

\* C10 happens: two launches and one kill have left one job in the table.
C10_Witness ==
  /\ InMain(ShellPid) /\ pc[ShellPid] = "getline"
  /\ nread = 2
  /\ pids[ShellPid] = {3}
  /\ kind[2] = "signalled"

\* The line of p falls through to process creation with no conjunction.
SingleLaunchLine(p) ==
  /\ Processing(p)
  /\ Command(p) \notin terminalCommands
  /\ \A j \in 1..Len(tokens[p]) : tokens[p][j] # W_and

\* C11: on a line whose first token is no built-in and that holds no `&&`
\* token, exactly one process creation is attempted (one call of fork(),
\* with all the tokens of the line), and when it has succeeded the job
\* table is the table before the line plus the one new identifier.
C11_SingleLaunch ==
  \A p \in Procs :
    SingleLaunchLine(p)
    => /\ Len(launches[p]) <= 1
       /\ pc[p] \in {"fork", "insert"} => cpTokens[p] = tokens[p]
       /\ pc[p] \in {"insert", "main73"} => Len(launches[p]) = 1
       /\ pc[p] # "main73" => pids[p] = T0[p]
       /\ (pc[p] = "main73" /\ launches[p][1] = -1)
            => (pids[p] = T0[p] /\ e[p] = "FORK_ERROR")
       /\ (pc[p] = "main73" /\ launches[p][1] # -1)
            => /\ launches[p][1] \notin T0[p]
               /\ pids[p] = T0[p] \cup {launches[p][1]}
               /\ e[p] = "OK"

\* C11 happens: a line of two tokens has launched one process next to a
\* job that was already tracked.
C11_Witness ==
  \E p \in Procs :
    /\ SingleLaunchLine(p) /\ pc[p] = "main73"
    /\ Len(tokens[p]) = 2
    /\ T0[p] # {} /\ Cardinality(pids[p]) = Cardinality(T0[p]) + 1

\* The line of p is `nice` with arguments niceCommand serves: two, the first
\* an integer.
NiceLine(p) ==
  /\ Processing(p)
  /\ Command(p) = W_nice /\ Len(Arguments(p)) = 2
  /\ stoi(Arguments(p)[1]).st = "ok"

\* C12: `nice` whose launch has failed returns that failure: FORK_ERROR in
\* the process whose fork() failed, INVALID_PROCESS_INPUT in the duplicate
\* whose execvp returned.
C12_NicePropagatesClaim ==
  \A p \in Procs :
    /\ (NiceLine(p) /\ Returned(p) /\ launches[p] = <<-1>>)
         => e[p] = "FORK_ERROR"
    /\ (ExecHasFailed(p) /\ ret[p] = "nice" /\ Returned(p))
         => e[p] = "INVALID_PROCESS_INPUT"

\* C13: `nice` with two or more arguments, the first an integer, does not
\* return INVALID_ARGUMENT_NUMBER and attempts exactly one launch, with the
\* given priority; with fewer than two arguments it returns
\* INVALID_ARGUMENT_NUMBER and launches nothing.
C13_NiceArityClaim ==
  \A p \in Procs :
    (Processing(p) /\ Command(p) = W_nice)
    => IF Len(Arguments(p)) < 2
       THEN /\ launches[p] = <<>>
            /\ Returned(p) => e[p] = "INVALID_ARGUMENT_NUMBER"
       ELSE stoi(Arguments(p)[1]).st = "ok"
            => /\ pc[p] = "fork" => priority[p] = stoi(Arguments(p)[1]).val
               /\ Returned(p) => /\ e[p] # "INVALID_ARGUMENT_NUMBER"
                                 /\ Len(launches[p]) = 1

\* The line of p is `kill <pid>` with pid an integer of the job table T the
\* line started with.
KillTrackedLine(p) ==
  /\ Processing(p)
  /\ Command(p) = W_kill /\ Len(Arguments(p)) = 1
  /\ stoi(Arguments(p)[1]).st = "ok"
  /\ stoi(Arguments(p)[1]).val \in T0[p]

\* C14: `kill <pid>` with pid in the job table T returns OK, has sent
\* SIGKILL to pid and to no other identifier, and leaves the table equal to
\* T without pid; until it returns only pid may have left the table.
C14_KillTrackedPid ==
  \A p \in Procs :
    KillTrackedLine(p)
    => LET v == stoi(Arguments(p)[1]).val
       IN /\ sent[p] \subseteq {v}
          /\ T0[p] \ {v} \subseteq pids[p]
          /\ pids[p] \subseteq T0[p]
          /\ Returned(p) => /\ e[p] = "OK"
                            /\ sent[p] = {v}
                            /\ pids[p] = T0[p] \ {v}

\* C14 happens: one of two tracked jobs has been killed, the other is
\* still alive and tracked.
C14_Witness ==
  \E p \in Procs :
    /\ KillTrackedLine(p) /\ Returned(p)
    /\ Cardinality(T0[p]) = 2
    /\ \E c \in pids[p] : c \in Procs /\ Alive(c)

\* C15: a process ended by the termination sequence has the fixed non-zero
\* wait status 666 mod 256 = 154, and a process only ever exits through the
\* termination sequence: every other end is a death by signal, with no exit
\* status.
C15_ExitStatus ==
  \A p \in Procs :
    /\ kind[p] = "exited"
         => (exitStatus[p] = 666 % 256 /\ exitStatus[p] = 154 /\ exitStatus[p] # 0)
    /\ kind[p] # "exited" => exitStatus[p] = -1

\* C15 happens: the control process has exited through the termination
\* sequence, and a process it had created has been killed.
C15_Witness ==
  /\ kind[ShellPid] = "exited"
  /\ \E c \in Procs : parent[c] = ShellPid /\ kind[c] = "signalled"

\* The `&&`-separated groups of a token list, left to right: what is before
\* the first "&&", between two, and after the last.
RECURSIVE GroupsFrom(_, _)
GroupsFrom(toks, i) ==
  LET j == NextAnd(toks, i)
  IN IF j > Len(toks)
     THEN <<SubSeq(toks, i, Len(toks))>>
     ELSE <<SubSeq(toks, i, j - 1)>> \o GroupsFrom(toks, j + 1)

Groups(toks) == GroupsFrom(toks, 1)

\* The line of p falls through to process creation.
FallsThrough(p) ==
  /\ Processing(p)
  /\ pc[p] \in {"createProcesses", "fork", "insert", "main73"}
  /\ ret[p] # "nice"

\* C16: on a line that falls through to process creation the groups are
\* launched left to right (the n-th fork() of the line is for the n-th
\* group), every identifier launched before is in the job table when the
\* process creation of the next group begins, and when no fork() has failed
\* the line ends after one launch per group.
C16_LeftToRight ==
  \A p \in Procs :
    FallsThrough(p)
    => LET g == Groups(tokens[p])
           n == Len(launches[p])
       IN /\ n <= Len(g)
          /\ pc[p] = "fork"
               => /\ n < Len(g) /\ cpTokens[p] = g[n + 1]
                  /\ \A i \in 1..n : launches[p][i] \in pids[p]
          /\ pc[p] = "insert"
               => /\ cpTokens[p] = g[n]
                  /\ \A i \in 1..(n - 1) : launches[p][i] \in pids[p]
          /\ pc[p] = "createProcesses"
               => \A i \in 1..n : launches[p][i] \in pids[p]
          /\ (pc[p] = "main73" /\ e[p] = "OK")
               => /\ n = Len(g)
                  /\ \A i \in 1..n : launches[p][i] \in pids[p]
          /\ (pc[p] = "main73" /\ e[p] # "OK")
               => (e[p] = "FORK_ERROR" /\ launches[p][n] = -1)

\* C16 happens: a line with one conjunction between two non-empty groups
\* has ended with both groups launched.
C16_Witness ==
  \E p \in Procs :
    /\ FallsThrough(p) /\ pc[p] = "main73" /\ e[p] = "OK"
    /\ Len(Groups(tokens[p])) = 2
    /\ \A i \in 1..2 : Groups(tokens[p])[i] # <<>>
    /\ Len(launches[p]) = 2

\* C17: createProcess is only ever called with at least one token: no
\* process is at its fork(), at its pids.insert or at its execvp with an
\* empty token list, so no process is created for an empty group.
C17_LauncherNonEmptyClaim ==
  \A p \in Procs :
    (InMain(p) /\ pc[p] \in {"fork", "insert", "execvp"})
    => cpTokens[p] # <<>>

\* The processes made by a fork() of p.
CreatedBy(p) == {c \in Procs : parent[c] = p}

\* p is about to execute pids.insert(pid).
AtInsert(p) == InMain(p) /\ pc[p] \in {"insert", "np_insert"}

\* C18: every identifier in the job table of the control process is the
\* identifier of a process the control process itself has created; an
\* identifier enters the table only by the pids.insert that follows the
\* fork() that returned it (never from the text of a line), and it was not
\* in the table before, so one that kill or killall has removed is not
\* tracked again.
C18_TableHoldsOwnProcesses ==
  /\ [](pids[ShellPid] \subseteq CreatedBy(ShellPid))
  /\ [](AtInsert(ShellPid)
         => /\ pid[ShellPid] \in CreatedBy(ShellPid)
            /\ pid[ShellPid] \notin pids[ShellPid]
            /\ pid[ShellPid] \notin T0[ShellPid])
  /\ [][pids'[ShellPid] \ pids[ShellPid]
          \subseteq (IF AtInsert(ShellPid) THEN {pid[ShellPid]} ELSE {})]_vars

\* C18 happens: the control process tracks two processes, the second one
\* made by `notepad`.
C18_Witness ==
  /\ Processing(ShellPid) /\ Returned(ShellPid)
  /\ Command(ShellPid) = W_notepad
  /\ Cardinality(pids[ShellPid]) = 2

\* C19: SIGKILL is sent only to an identifier that is in the job table of
\* the sender when it is sent: a process about to call kill() in
\* killCommand holds a tracked pid, the identifiers the loop of
\* killAllCommand has yet to visit are tracked (in a command and in the
\* termination sequence alike), and every step that sends a signal sends it
\* to an identifier of the sender's table.
C19_SignalsOnlyTracked ==
  /\ [](\A p \in Procs :
          CanStep(p)
          => /\ pc[p] = "kill_send" => pid[p] \in pids[p]
             /\ pc[p] = "killall_loop" => todo[p] \subseteq pids[p])
  /\ [][\A p \in Procs :
          (CanStep(p) /\ kind'[p] = "shell")
          => sent'[p] \ sent[p] \subseteq pids[p]]_vars

\* C19 happens: `kill` has just signalled one of two tracked processes and
\* is about to erase it.
C19_Witness ==
  \E p \in Procs :
    /\ InMain(p) /\ pc[p] = "kill_erase"
    /\ Cardinality(pids[p]) = 2
    /\ sent[p] = {pid[p]} /\ kind[pid[p]] = "signalled"

\* C20: in the control process createProcess returns OK or FORK_ERROR only.
\* When fork() has succeeded it inserts the new identifier and returns OK,
\* whatever setpriority returns; when fork() has failed it returns
\* FORK_ERROR and the table is as before.  INVALID_PROCESS_INPUT arises
\* only in a duplicate, at the return of execvp, and that step leaves the
\* table of the control process as it is: the identifier stays tracked.
C20_LauncherOutcomes ==
  /\ [](e[ShellPid] # "INVALID_PROCESS_INPUT")
  /\ [][\A p \in Procs :
          (e'[p] = "INVALID_PROCESS_INPUT" /\ e[p] # "INVALID_PROCESS_INPUT")
          => /\ parent[p] # 0 /\ pc[p] = "execvp"
             /\ pids'[ShellPid] = pids[ShellPid]]_vars
  /\ [][(InMain(ShellPid) /\ pc[ShellPid] = "insert" /\ InMain(ShellPid)'
           /\ pc'[ShellPid] # "insert")
          => /\ pids'[ShellPid] = pids[ShellPid] \cup {pid[ShellPid]}
             /\ e'[ShellPid] = "OK"
             /\ pc'[ShellPid] \in {"createProcesses", "main73", "main71"}]_vars
  /\ [][(InMain(ShellPid) /\ pc[ShellPid] = "fork" /\ InMain(ShellPid)'
           /\ pc'[ShellPid] \notin {"fork", "insert"})
          => /\ pids'[ShellPid] = pids[ShellPid]
             /\ ret[ShellPid] # "nice" => e'[ShellPid] = "FORK_ERROR"
             /\ pc'[ShellPid] \in {"main73", "main71"}]_vars

\* C20 happens: the line of the control process has ended with OK and its
\* table tracks the duplicate whose execvp has failed.
C20_Witness ==
  /\ FallsThrough(ShellPid) /\ pc[ShellPid] = "main73" /\ e[ShellPid] = "OK"
  /\ \E c \in pids[ShellPid] :
       /\ ExecHasFailed(c)
       /\ e[c] = "INVALID_PROCESS_INPUT"

====
